---- MODULE Spec2Model ----
(***************************************************************************)
(* A model of the synthetic e-commerce pipeline:                           *)
(*   generate_ecommerce_data.py  (customers, products, orders, order       *)
(*                                items, reviews, CSV export),             *)
(*   ingest_data_to_sqlite.py    (drop / create / transactional insert),   *)
(*   analyze_ecommerce.py        (the fixed list of five queries).         *)
(*                                                                         *)
(* Money is counted in tenths of a cent so that round(x, 2) is a real      *)
(* operation; dates are day numbers counted from REGISTRATION_START.       *)
(* Attributes that no rule of the programs reads back (names, e-mail text, *)
(* status, payment method, review text, rating) are left out of the        *)
(* generated records.  The random sources are modelled as free choices.    *)
(***************************************************************************)
EXTENDS Integers, Sequences, FiniteSets, TLC

VARIABLES
    gpc,              \* generator: position in main() / the running stage
    counts,           \* generator: the target counts (CUSTOMER_COUNT, ...)
    customers,        \* customers_df
    products,         \* products_df
    orders,           \* orders_df
    order_items,      \* the order_items list / order_items_df
    order_totals,     \* generate_order_items: order_totals
    record_id,        \* generate_order_items: record_id
    selectable_items, \* generate_reviews: the sampled rows (as positions)
    reviews,          \* the reviews list / reviews_df
    saved             \* the CSV files written so far, in order

gvars == <<gpc, counts, customers, products, orders, order_items,
           order_totals, record_id, selectable_items, reviews, saved>>

VARIABLES
    ipc,         \* ingest: position in main()
    disk,        \* ingest: the data directory (does it exist, its CSV files)
    dataframes,  \* ingest: the frames read so far, in reading order
    connected,   \* ingest: has this run opened the database
    db,          \* the committed content of ecommerce.db
    work,        \* what the connection sees (db plus its open transaction)
    in_txn,      \* ingest: is a transaction open
    ix,          \* ingest: position in the running loop over the tables
    ri,          \* ingest: position in the rows of the table being inserted
    ierr,        \* ingest: the stage whose error ended the run
    runs,        \* ingest: runs started so far
    db0,         \* history: db when the running ingest run started
    prev         \* history: how the ingest run before this one ended

ivars == <<ipc, disk, dataframes, connected, db, work, in_txn, ix, ri, ierr,
           runs, db0, prev>>

VARIABLES
    apc,         \* analysis: position in main()
    adb,         \* analysis: ecommerce.db as the analysis finds it
    qi,          \* analysis: position in query_functions
    results,     \* analysis: the results list
    exports,     \* analysis: the files written under results/
    summary      \* analysis: what summarize_runs printed

avars == <<apc, adb, qi, results, exports, summary>>

----------------------------------------------------------------------------
(* Bounds of the model *)

\* number of customers generated (CUSTOMER_COUNT, 1000 in the source)
NumCustomers == 2
\* number of products generated (PRODUCT_COUNT, 500 in the source)
NumProducts == 2
\* largest number of orders asked for (ORDER_COUNT, 2000 in the source)
MaxOrders == 2
\* largest order item target (ORDER_ITEM_COUNT, 5000 in the source)
MaxItems == 3
\* largest number of reviews asked for (REVIEW_COUNT, 1500 in the source)
MaxReviews == 2
\* DATA_END_DATE as a day number; REGISTRATION_START is day 0
EndDay == 1
\* upper end of random.randint(1, 5) for a quantity
MaxQuantity == 2

\* largest number of rows of a CSV file handed to the ingest
MaxRows == 2
\* ingest runs in a row on the same database
MaxRuns == 3

REGISTRATION_START == 0
DATA_END_DATE == EndDay

\* values random.uniform(5, 500) may return, in tenths of a cent
RawPrices == {5004, 19995}

Quantities == 1..MaxQuantity

----------------------------------------------------------------------------
(* Helpers *)

\* round(x, 2) on an amount in tenths of a cent (ties go to the even cent)
Round2(x) ==
    LET q == x \div 10
        r == x % 10
    IN  IF r < 5 THEN q * 10
        ELSE IF r > 5 THEN (q + 1) * 10
        ELSE IF q % 2 = 0 THEN q * 10 ELSE (q + 1) * 10

Range(s) == {s[i] : i \in DOMAIN s}

\* fake.date_between_dates(start, end): a date of the closed interval
DateBetween(start, end) == start..end

\* products.loc[product_id, "price"]
PriceOf(prods, pid) ==
    (CHOOSE p \in Range(prods) : p.product_id = pid).price

\* order_lookup.loc[order_id]
OrderOf(ords, oid) == CHOOSE o \in Range(ords) : o.order_id = oid

\* order_totals[order_id] += subtotal, dropping earlier subtotals
AddTotalOverwrite(totals, oid, subtotal) ==
    [totals EXCEPT ![oid] = subtotal]

\* order_totals[order_id] += subtotal
AddTotal(totals, oid, subtotal) ==
    [totals EXCEPT ![oid] = @ + subtotal]

\* build_item, numbering the item after its order
BuildItemByOrder(rid, oid, pid, quantity) ==
    LET price == PriceOf(products, pid)
    IN  [order_item_id |-> oid,
         order_id      |-> oid,
         product_id    |-> pid,
         quantity      |-> quantity,
         unit_price    |-> price,
         subtotal      |-> Round2(quantity * price)]

\* build_item, the record it returns
BuildItem(rid, oid, pid, quantity) ==
    LET price == PriceOf(products, pid)
    IN  [order_item_id |-> rid,
         order_id      |-> oid,
         product_id    |-> pid,
         quantity      |-> quantity,
         unit_price    |-> price,
         subtotal      |-> Round2(quantity * price)]

\* orders_df["order_id"].map(order_totals).round(2), written over the
\* customer column as well
MapTotalsAndCustomer(ords, totals) ==
    [i \in DOMAIN ords |->
        [ords[i] EXCEPT !.total_amount = Round2(totals[ords[i].order_id]),
                        !.customer_id = 1]]

\* orders_df["order_id"].map(order_totals).round(2)
MapTotals(ords, totals) ==
    [i \in DOMAIN ords |->
        [ords[i] EXCEPT !.total_amount = Round2(totals[ords[i].order_id])]]

\* the sum of the subtotals of the items of one order
RECURSIVE SubtotalSum(_, _)
SubtotalSum(items, oid) ==
    IF items = <<>> THEN 0
    ELSE (IF Head(items).order_id = oid THEN Head(items).subtotal ELSE 0)
         + SubtotalSum(Tail(items), oid)

\* the file names main() saves, in order
SaveOrder ==
    <<"customers.csv", "products.csv", "orders.csv", "order_items.csv",
      "reviews.csv">>

\* the frame main() hands to save_dataframe for the k-th file
FrameOf(k) ==
    CASE k = 1 -> customers
      [] k = 2 -> products
      [] k = 3 -> orders
      [] k = 4 -> order_items
      [] OTHER -> reviews

----------------------------------------------------------------------------
(* generate_ecommerce_data.py *)

\* generate_customers: one pass of the loop
GenerateCustomer ==
    /\ gpc = "customers"
    /\ Len(customers) < counts.customers
    /\ \E d \in DateBetween(REGISTRATION_START, DATA_END_DATE) :
         customers' = Append(customers,
                        [customer_id |-> Len(customers) + 1,
                         registration_date |-> d])
    /\ UNCHANGED <<gpc, counts, products, orders, order_items, order_totals,
                   record_id, selectable_items, reviews, saved>>
    /\ UNCHANGED <<ivars, avars>>

\* generate_customers returns; main() goes on to the products
CustomersReturn ==
    /\ gpc = "customers"
    /\ Len(customers) = counts.customers
    /\ gpc' = "products"
    /\ UNCHANGED <<counts, customers, products, orders, order_items,
                   order_totals, record_id, selectable_items, reviews, saved>>
    /\ UNCHANGED <<ivars, avars>>

\* generate_products: one pass of the loop
GenerateProduct ==
    /\ gpc = "products"
    /\ Len(products) < counts.products
    /\ \E raw \in RawPrices :
         products' = Append(products,
                       [product_id |-> Len(products) + 1,
                        price |-> Round2(raw)])
    /\ UNCHANGED <<gpc, counts, customers, orders, order_items, order_totals,
                   record_id, selectable_items, reviews, saved>>
    /\ UNCHANGED <<ivars, avars>>

\* generate_products returns; main() goes on to the orders
ProductsReturn ==
    /\ gpc = "products"
    /\ Len(products) = counts.products
    /\ gpc' = "orders"
    /\ UNCHANGED <<counts, customers, products, orders, order_items,
                   order_totals, record_id, selectable_items, reviews, saved>>
    /\ UNCHANGED <<ivars, avars>>

\* the first day generate_orders may give an order of this customer
OrderDateStartEpoch(customer) == REGISTRATION_START

\* the first day generate_orders may give an order of this customer
OrderDateStart(customer) == customer.registration_date

\* generate_orders: one pass of the loop
GenerateOrder ==
    /\ gpc = "orders"
    /\ Len(orders) < counts.orders
    /\ \E customer \in Range(customers) :
       \E order_date \in DateBetween(OrderDateStart(customer), DATA_END_DATE) :
         orders' = Append(orders,
                     [order_id |-> Len(orders) + 1,
                      customer_id |-> customer.customer_id,
                      order_date |-> order_date,
                      total_amount |-> 0])
    /\ UNCHANGED <<gpc, counts, customers, products, order_items, order_totals,
                   record_id, selectable_items, reviews, saved>>
    /\ UNCHANGED <<ivars, avars>>

\* generate_orders returns; main() calls generate_order_items
OrdersReturn ==
    /\ gpc = "orders"
    /\ Len(orders) = counts.orders
    /\ gpc' = "items_call"
    /\ UNCHANGED <<counts, customers, products, orders, order_items,
                   order_totals, record_id, selectable_items, reviews, saved>>
    /\ UNCHANGED <<ivars, avars>>

\* generate_order_items, up to the first loop
BeginOrderItems ==
    /\ gpc = "items_call"
    /\ order_totals' = [oid \in {o.order_id : o \in Range(orders)} |-> 0]
    /\ order_items' = <<>>
    /\ record_id' = 1
    /\ gpc' = "items"
    /\ UNCHANGED <<counts, customers, products, orders, selectable_items,
                   reviews, saved>>
    /\ UNCHANGED <<ivars, avars>>

\* build_item called for (rid, oid): the item is appended, the running total
\* of the order grows, record_id moves on
AppendItem(rid, oid, pid, quantity) ==
    LET item == BuildItem(rid, oid, pid, quantity)
    IN  /\ order_totals' = AddTotal(order_totals, oid, item.subtotal)
        /\ order_items' = Append(order_items, item)
        /\ record_id' = rid + 1

\* the for loop over orders.index: the record_id-th order gets its item
SeedItem ==
    /\ gpc = "items"
    /\ record_id <= Len(orders)
    /\ \E pid \in {p.product_id : p \in Range(products)} :
       \E quantity \in Quantities :
         AppendItem(record_id, orders[record_id].order_id, pid, quantity)
    /\ UNCHANGED <<gpc, counts, customers, products, orders,
                   selectable_items, reviews, saved>>
    /\ UNCHANGED <<ivars, avars>>

\* the test of the while loop, stopping one item short
MoreItemsStrict(rid, count) == rid < count

\* the test of the while loop
MoreItems(rid, count) == rid <= count

\* the while loop: one more item for an order picked at random
ExtraItem ==
    /\ gpc = "items"
    /\ record_id > Len(orders)
    /\ MoreItems(record_id, counts.order_items)
    /\ \E random_order_id \in {o.order_id : o \in Range(orders)} :
       \E pid \in {p.product_id : p \in Range(products)} :
       \E quantity \in Quantities :
         AppendItem(record_id, random_order_id, pid, quantity)
    /\ UNCHANGED <<gpc, counts, customers, products, orders,
                   selectable_items, reviews, saved>>
    /\ UNCHANGED <<ivars, avars>>

\* both loops are over: the totals are written back and the function returns
FinishOrderItems ==
    /\ gpc = "items"
    /\ record_id > Len(orders)
    /\ ~MoreItems(record_id, counts.order_items)
    /\ orders' = MapTotals(orders, order_totals)
    /\ gpc' = "reviews_call"
    /\ UNCHANGED <<counts, customers, products, order_items, order_totals,
                   record_id, selectable_items, reviews, saved>>
    /\ UNCHANGED <<ivars, avars>>

\* generate_reviews, up to the loop: order_items_df.sample(n, replace=True)
BeginReviews ==
    /\ gpc = "reviews_call"
    /\ selectable_items' \in
         [1..counts.reviews -> DOMAIN order_items]
    /\ reviews' = <<>>
    /\ gpc' = "reviews"
    /\ UNCHANGED <<counts, customers, products, orders, order_items,
                   order_totals, record_id, saved>>
    /\ UNCHANGED <<ivars, avars>>

\* the customer a review is filed under
ReviewCustomerAny(order) == 1

\* the customer a review is filed under
ReviewCustomer(order) == order.customer_id

\* generate_reviews: one pass of the loop
GenerateReview ==
    /\ gpc = "reviews"
    /\ Len(reviews) < Len(selectable_items)
    /\ LET review_id == Len(reviews) + 1
           item == order_items[selectable_items[review_id]]
           order == OrderOf(orders, item.order_id)
       IN  \E review_date \in DateBetween(order.order_date, DATA_END_DATE) :
             reviews' = Append(reviews,
                          [review_id |-> review_id,
                           product_id |-> item.product_id,
                           customer_id |-> ReviewCustomer(order),
                           review_date |-> review_date])
    /\ UNCHANGED <<gpc, counts, customers, products, orders, order_items,
                   order_totals, record_id, selectable_items, saved>>
    /\ UNCHANGED <<ivars, avars>>

\* generate_reviews returns; main() leaves the try block
ReviewsReturn ==
    /\ gpc = "reviews"
    /\ Len(reviews) = Len(selectable_items)
    /\ gpc' = "save"
    /\ UNCHANGED <<counts, customers, products, orders, order_items,
                   order_totals, record_id, selectable_items, reviews, saved>>
    /\ UNCHANGED <<ivars, avars>>

\* save_dataframe, called five times by main()
SaveDataframe ==
    /\ gpc = "save"
    /\ Len(saved) < Len(SaveOrder)
    /\ LET k == Len(saved) + 1
       IN  /\ saved' = Append(saved, [name |-> SaveOrder[k], rows |-> FrameOf(k)])
           /\ gpc' = IF k = Len(SaveOrder) THEN "done" ELSE "save"
    /\ UNCHANGED <<counts, customers, products, orders, order_items,
                   order_totals, record_id, selectable_items, reviews>>
    /\ UNCHANGED <<ivars, avars>>


----------------------------------------------------------------------------
(* ingest_data_to_sqlite.py *)

\* the keys of TABLE_QUERIES and of insert_statements, in order
Tables == <<"customers", "products", "orders", "order_items", "reviews">>

\* table_order of drop_existing_tables
table_order == <<"reviews", "order_items", "orders", "products", "customers">>

TableSet == Range(Tables)

\* the FOREIGN KEY clauses of TABLE_QUERIES: the tables the reference
\* columns of a table point to, in column order
Parents(t) ==
    CASE t = "orders"      -> <<"customers">>
      [] t = "order_items" -> <<"orders", "products">>
      [] t = "reviews"     -> <<"products", "customers">>
      [] OTHER             -> <<>>

\* the indexes INDEX_QUERIES creates on a table
IndexesOf(t) ==
    CASE t = "orders"      -> {"idx_orders_customer"}
      [] t = "order_items" -> {"idx_order_items_order", "idx_order_items_product"}
      [] t = "reviews"     -> {"idx_reviews_product", "idx_reviews_customer"}
      [] OTHER             -> {}

NoTable == [exists |-> FALSE, rows |-> <<>>, indexes |-> {}]

\* a database file without tables
FreshDb == [t \in TableSet |-> NoTable]

\* DROP TABLE IF EXISTS that leaves the table in place
DropTableKeep(store, t) == store

\* DROP TABLE IF EXISTS t
DropTable(store, t) == [store EXCEPT ![t] = NoTable]

\* CREATE TABLE t
CreateTable(store, t) ==
    [store EXCEPT ![t] = [exists |-> TRUE, rows |-> <<>>, indexes |-> {}]]

\* the CREATE INDEX statements of INDEX_QUERIES
CreateIndexes(store) ==
    [t \in TableSet |-> [store[t] EXCEPT !.indexes = IndexesOf(t)]]

Keys(store, t) == {r.id : r \in Range(store[t].rows)}

\* does INSERT of this row raise sqlite3.IntegrityError (PRIMARY KEY and
\* FOREIGN KEY clauses of TABLE_QUERIES, foreign_keys = ON)
Violates(store, t, row) ==
    \/ row.id \in Keys(store, t)
    \/ \E j \in DOMAIN Parents(t) : row.refs[j] \notin Keys(store, Parents(t)[j])

\* INSERT INTO t ... VALUES (row)
InsertRow(store, t, row) ==
    [store EXCEPT ![t].rows = Append(@, row)]

\* connection.rollback() that also undoes the dropping of the old tables
RollbackToRunStart(committed, working) == db0

\* connection.rollback() that keeps the rows of the open transaction
RollbackKeep(committed, working) == working

\* connection.rollback(): the connection sees the committed content again
Rollback(committed, working) == committed

\* the order of the stages of main(), with the files read after the schema
\* is rebuilt
NextStageLoadLate(stage) ==
    CASE stage = "check_dir" -> "connect"
      [] stage = "connect"   -> "drop"
      [] stage = "drop"      -> "create"
      [] stage = "create"    -> "load"
      [] stage = "load"      -> "insert"
      [] stage = "insert"    -> "report"
      [] OTHER               -> "done"

\* the order of the stages of main()
NextStage(stage) ==
    CASE stage = "check_dir" -> "load"
      [] stage = "load"      -> "connect"
      [] stage = "connect"   -> "drop"
      [] stage = "drop"      -> "create"
      [] stage = "create"    -> "insert"
      [] stage = "insert"    -> "report"
      [] OTHER               -> "done"

\* the frame read for a table (load_dataframes keeps them by table name)
FrameFor(t) == dataframes[CHOOSE i \in DOMAIN Tables : Tables[i] = t]

\* main(): the data directory is checked
CheckDataDir ==
    /\ ipc = "check_dir"
    /\ IF disk.dir
       THEN /\ ipc' = NextStage("check_dir")
            /\ ierr' = ierr
       ELSE /\ ipc' = "failed"
            /\ ierr' = "dir"
    /\ UNCHANGED <<disk, dataframes, connected, db, work, in_txn, ix, ri,
                   runs, db0, prev>>
    /\ UNCHANGED <<gvars, avars>>

\* load_dataframes: read_csv of the next file
ReadCsv ==
    /\ ipc = "load"
    /\ LET k == Len(dataframes) + 1
           t == Tables[k]
       IN  IF t \in DOMAIN disk.files
           THEN /\ dataframes' = Append(dataframes, disk.files[t])
                /\ ipc' = IF k = Len(Tables) THEN NextStage("load") ELSE "load"
                /\ ierr' = ierr
           ELSE /\ ipc' = "failed"
                /\ ierr' = "file"
                /\ dataframes' = dataframes
    /\ UNCHANGED <<disk, connected, db, work, in_txn, ix, ri, runs, db0, prev>>
    /\ UNCHANGED <<gvars, avars>>

\* connect_database
ConnectDatabase ==
    /\ ipc = "connect"
    /\ connected' = TRUE
    /\ work' = db
    /\ in_txn' = FALSE
    /\ ix' = 1
    /\ ipc' = NextStage("connect")
    /\ UNCHANGED <<disk, dataframes, db, ri, ierr, runs, db0, prev>>
    /\ UNCHANGED <<gvars, avars>>

\* drop_existing_tables: one DROP TABLE IF EXISTS; outside a transaction the
\* statement is committed as it runs, the commit() after the loop finds
\* nothing left to commit
DropExistingTable ==
    /\ ipc = "drop"
    /\ ~in_txn
    /\ LET t == table_order[ix]
       IN  /\ db' = DropTable(db, t)
           /\ work' = DropTable(work, t)
    /\ IF ix = Len(table_order)
       THEN /\ ipc' = NextStage("drop")
            /\ ix' = 1
       ELSE /\ ipc' = "drop"
            /\ ix' = ix + 1
    /\ UNCHANGED <<disk, dataframes, connected, in_txn, ri, ierr, runs, db0,
                   prev>>
    /\ UNCHANGED <<gvars, avars>>

\* create_schema: one CREATE TABLE, committed as it runs; a table that is
\* still there makes it raise sqlite3.OperationalError
CreateSchemaTable ==
    /\ ipc = "create"
    /\ ~in_txn
    /\ ix <= Len(Tables)
    /\ LET t == Tables[ix]
       IN  IF work[t].exists
           THEN /\ ipc' = "failed"
                /\ ierr' = "create"
                /\ UNCHANGED <<db, work, ix>>
           ELSE /\ db' = CreateTable(db, t)
                /\ work' = CreateTable(work, t)
                /\ ix' = ix + 1
                /\ UNCHANGED <<ipc, ierr>>
    /\ UNCHANGED <<disk, dataframes, connected, in_txn, ri, runs, db0, prev>>
    /\ UNCHANGED <<gvars, avars>>

\* create_schema: the CREATE INDEX statements and the commit() that ends it
CreateSchemaIndexes ==
    /\ ipc = "create"
    /\ ~in_txn
    /\ ix > Len(Tables)
    /\ db' = CreateIndexes(db)
    /\ work' = CreateIndexes(work)
    /\ ipc' = NextStage("create")
    /\ UNCHANGED <<disk, dataframes, connected, in_txn, ix, ri, ierr, runs,
                   db0, prev>>
    /\ UNCHANGED <<gvars, avars>>

\* insert_data: cursor.execute("BEGIN;")
BeginTransaction ==
    /\ ipc = "insert"
    /\ ~in_txn
    /\ in_txn' = TRUE
    /\ ix' = 1
    /\ ri' = 1
    /\ UNCHANGED <<ipc, disk, dataframes, connected, db, work, ierr, runs,
                   db0, prev>>
    /\ UNCHANGED <<gvars, avars>>

\* insert_data: executemany reaches the next row of the table; a row the
\* schema refuses raises, the except clause rolls back and raises again
InsertNextRow ==
    /\ ipc = "insert"
    /\ in_txn
    /\ ix <= Len(Tables)
    /\ ri <= Len(FrameFor(Tables[ix]))
    /\ LET t == Tables[ix]
           row == FrameFor(t)[ri]
       IN  IF Violates(work, t, row)
           THEN /\ work' = Rollback(db, work)
                /\ db' = Rollback(db, work)
                /\ in_txn' = FALSE
                /\ ipc' = "failed"
                /\ ierr' = "insert"
                /\ ri' = ri
           ELSE /\ work' = InsertRow(work, t, row)
                /\ ri' = ri + 1
                /\ UNCHANGED <<db, in_txn, ipc, ierr>>
    /\ UNCHANGED <<disk, dataframes, connected, ix, runs, db0, prev>>
    /\ UNCHANGED <<gvars, avars>>

\* insert_data: executemany is through with a table, the loop moves on
InsertNextTable ==
    /\ ipc = "insert"
    /\ in_txn
    /\ ix <= Len(Tables)
    /\ ri > Len(FrameFor(Tables[ix]))
    /\ ix' = ix + 1
    /\ ri' = 1
    /\ UNCHANGED <<ipc, disk, dataframes, connected, db, work, in_txn, ierr,
                   runs, db0, prev>>
    /\ UNCHANGED <<gvars, avars>>

\* insert_data: connection.commit() after the loop
CommitInsert ==
    /\ ipc = "insert"
    /\ in_txn
    /\ ix > Len(Tables)
    /\ db' = work
    /\ in_txn' = FALSE
    /\ ipc' = NextStage("insert")
    /\ UNCHANGED <<disk, dataframes, connected, work, ix, ri, ierr, runs, db0,
                   prev>>
    /\ UNCHANGED <<gvars, avars>>

\* report_counts, then the with block ends and main() returns
ReportCounts ==
    /\ ipc = "report"
    /\ \A t \in TableSet : work[t].exists
    /\ ipc' = NextStage("report")
    /\ UNCHANGED <<disk, dataframes, connected, db, work, in_txn, ix, ri,
                   ierr, runs, db0, prev>>
    /\ UNCHANGED <<gvars, avars>>

\* the data directories an ingest run may find: every file there (rows that
\* load, one row with the key of the first row, or one row that points to a
\* parent row that is not there), one file missing, no directory
ValidData(k) ==
    [t \in TableSet |->
        [i \in 1..k |-> [id |-> i, refs |-> [j \in DOMAIN Parents(t) |-> i]]]]

DupKey(data, t, i) == [data EXCEPT ![t][i].id = data[t][1].id]

Dangling(data, t, i, j) ==
    [data EXCEPT ![t][i].refs[j] = Len(data[Parents(t)[j]]) + 1]

DataSets ==
    UNION {
        {ValidData(k)}
        \cup {DupKey(ValidData(k), t, i) : t \in TableSet, i \in 2..k}
        \cup UNION {{Dangling(ValidData(k), t, i, j) : j \in DOMAIN Parents(t)} :
                        t \in TableSet, i \in 1..k}
        : k \in 0..MaxRows}

Without(data, t) == [u \in TableSet \ {t} |-> data[u]]

NoDisk == [dir |-> FALSE, files |-> [u \in {} |-> <<>>]]

Disks ==
    {[dir |-> TRUE, files |-> data] : data \in DataSets}
    \cup {[dir |-> TRUE, files |-> Without(ValidData(1), t)] : t \in TableSet}
    \cup {NoDisk}

\* the script is started (again) on some data directory
StartIngest ==
    /\ ipc \in {"idle", "done", "failed"}
    /\ runs < MaxRuns
    /\ runs' = runs + 1
    /\ disk' \in Disks
    /\ prev' = [ok |-> ipc = "done", disk |-> disk, db |-> db]
    /\ db0' = db
    /\ dataframes' = <<>>
    /\ connected' = FALSE
    /\ work' = db
    /\ in_txn' = FALSE
    /\ ix' = 1
    /\ ri' = 1
    /\ ierr' = "none"
    /\ ipc' = "check_dir"
    /\ UNCHANGED db
    /\ UNCHANGED <<gvars, avars>>

----------------------------------------------------------------------------
(* analyze_ecommerce.py *)

\* query_functions of main()
query_functions ==
    <<"top_customers_by_revenue", "product_performance_with_reviews",
      "complete_order_details", "category_sales_summary",
      "customer_engagement_metrics">>

\* the tables the SQL of a query reads
QueryTables(q) ==
    CASE q = "top_customers_by_revenue" ->
            {"customers", "orders", "order_items"}
      [] q = "product_performance_with_reviews" ->
            {"products", "order_items", "reviews"}
      [] q = "complete_order_details" ->
            {"orders", "customers", "order_items", "products"}
      [] q = "category_sales_summary" ->
            {"products", "order_items"}
      [] OTHER ->
            {"customers", "orders", "order_items", "reviews"}

\* the tables a query joins with INNER JOIN (or selects FROM): without rows
\* in one of them the result is empty
InnerTables(q) ==
    CASE q = "top_customers_by_revenue" ->
            {"customers", "orders", "order_items"}
      [] q = "product_performance_with_reviews" ->
            {"products"}
      [] q = "complete_order_details" ->
            {"orders", "customers", "order_items", "products"}
      [] q = "category_sales_summary" ->
            {"products", "order_items"}
      [] OTHER ->
            {"customers", "orders", "order_items"}

\* pd.read_sql_query raises sqlite3.DatabaseError (no such table)
QueryFails(q, store) == \E t \in QueryTables(q) : store.tables[t] = "missing"

\* len(dataframe) of an aggregate query, with one row of totals even when
\* nothing matches
RowCountsOneRow(q, store) == {1}

\* len(dataframe), as none (0) or some (1): product_performance_with_reviews
\* returns a row per product, the other queries may match nothing
RowCounts(q, store) ==
    IF \E t \in InnerTables(q) : store.tables[t] = "empty" THEN {0}
    ELSE IF q = "product_performance_with_reviews" THEN {1}
    ELSE {0, 1}

\* a failed query is passed over and the loop goes on
ErrorSkipped(i) == [apc |-> "queries", qi |-> i + 1]

\* the RuntimeError of execute_and_report leaves the loop through the
\* except clause of main(), which raises "Analysis failed"
ErrorRaised(i) == [apc |-> "failed", qi |-> i]

\* main(): the database file must be there
StartAnalysis ==
    /\ apc = "start"
    /\ IF adb.exists
       THEN /\ apc' = "queries"
       ELSE /\ apc' = "failed"
    /\ UNCHANGED <<adb, qi, results, exports, summary>>
    /\ UNCHANGED <<gvars, ivars>>

\* main(): results.append(runner(connection)) for the next runner
RunQuery ==
    /\ apc = "queries"
    /\ qi <= Len(query_functions)
    /\ LET q == query_functions[qi]
       IN  IF QueryFails(q, adb)
           THEN /\ apc' = ErrorRaised(qi).apc
                /\ qi' = ErrorRaised(qi).qi
                /\ UNCHANGED <<results, exports>>
           ELSE /\ \E n \in RowCounts(q, adb) :
                     results' = Append(results, [query |-> q, rows |-> n])
                /\ exports' = exports \cup {q}
                /\ qi' = qi + 1
                /\ apc' = apc
    /\ UNCHANGED <<adb, summary>>
    /\ UNCHANGED <<gvars, ivars>>

\* summarize_runs(results), after the loop
SummarizeRuns ==
    /\ apc = "queries"
    /\ qi > Len(query_functions)
    /\ summary' = [printed |-> TRUE, rows |-> results]
    /\ apc' = "done"
    /\ UNCHANGED <<adb, qi, results, exports>>
    /\ UNCHANGED <<gvars, ivars>>

----------------------------------------------------------------------------
(* Initial states *)

\* the frames generate_customers can return for k customers
CustomerFrames(k) ==
    {[i \in 1..k |-> [customer_id |-> i, registration_date |-> f[i]]] :
        f \in [1..k -> DateBetween(REGISTRATION_START, DATA_END_DATE)]}

\* the frames generate_products can return for k products
ProductFrames(k) ==
    {[i \in 1..k |-> [product_id |-> i, price |-> Round2(f[i])]] :
        f \in [1..k -> RawPrices]}

\* the frames generate_orders can return for n orders of these customers
OrderFrames(custs, n) ==
    {f \in [1..n -> [order_id : 1..n, customer_id : DOMAIN custs,
                     order_date : DateBetween(REGISTRATION_START, DATA_END_DATE),
                     total_amount : {0}]] :
        \A i \in 1..n :
            /\ f[i].order_id = i
            /\ f[i].order_date >= custs[f[i].customer_id].registration_date}

\* the generator is not running
GeneratorOff ==
    /\ gpc = "off"
    /\ counts = [customers |-> 0, products |-> 0, orders |-> 0,
                 order_items |-> 0, reviews |-> 0]
    /\ customers = <<>>
    /\ products = <<>>
    /\ orders = <<>>
    /\ order_items = <<>>
    /\ order_totals = <<>>
    /\ record_id = 0
    /\ selectable_items = <<>>
    /\ reviews = <<>>
    /\ saved = <<>>

\* the ingest is not running, the database file is yet to be made
IngestOff ==
    /\ ipc = "idle"
    /\ disk = NoDisk
    /\ dataframes = <<>>
    /\ connected = FALSE
    /\ db = FreshDb
    /\ work = FreshDb
    /\ in_txn = FALSE
    /\ ix = 1
    /\ ri = 1
    /\ ierr = "none"
    /\ runs = 0
    /\ db0 = FreshDb
    /\ prev = [ok |-> FALSE, disk |-> NoDisk, db |-> FreshDb]

NoSummary == [printed |-> FALSE, rows |-> <<>>]

\* the analysis is not running
AnalysisOff ==
    /\ apc = "off"
    /\ adb = [exists |-> FALSE, tables |-> [t \in TableSet |-> "missing"]]
    /\ qi = 1
    /\ results = <<>>
    /\ exports = {}
    /\ summary = NoSummary

\* the ingest script before its first run on a new database file
InitIngest == GeneratorOff /\ IngestOff /\ AnalysisOff

\* main() of the analysis on some database file: none, or one whose tables
\* are each missing, empty or filled
InitAnalysis ==
    /\ GeneratorOff
    /\ IngestOff
    /\ apc = "start"
    /\ \/ adb = [exists |-> FALSE, tables |-> [t \in TableSet |-> "missing"]]
       \/ \E f \in [TableSet -> {"missing", "empty", "rows"}] :
            adb = [exists |-> TRUE, tables |-> f]
    /\ qi = 1
    /\ results = <<>>
    /\ exports = {}
    /\ summary = NoSummary

NoCounts == [customers |-> 0, products |-> 0, orders |-> 0,
             order_items |-> 0, reviews |-> 0]

\* main() of the generator, before the first stage
InitMain ==
    /\ IngestOff
    /\ AnalysisOff
    /\ gpc = "customers"
    /\ counts \in [customers : {NumCustomers}, products : {NumProducts},
                   orders : 1..MaxOrders, order_items : 0..MaxItems,
                   reviews : 0..MaxReviews]
    /\ customers = <<>>
    /\ products = <<>>
    /\ orders = <<>>
    /\ order_items = <<>>
    /\ order_totals = <<>>
    /\ record_id = 0
    /\ selectable_items = <<>>
    /\ reviews = <<>>
    /\ saved = <<>>

\* generate_orders is called with a frame of customers and a count
InitOrders ==
    /\ IngestOff
    /\ AnalysisOff
    /\ gpc = "orders"
    /\ \E k \in 1..NumCustomers : customers \in CustomerFrames(k)
    /\ \E n \in 0..MaxOrders :
         counts = [NoCounts EXCEPT !.customers = Len(customers), !.orders = n]
    /\ products = <<>>
    /\ orders = <<>>
    /\ order_items = <<>>
    /\ order_totals = <<>>
    /\ record_id = 0
    /\ selectable_items = <<>>
    /\ reviews = <<>>
    /\ saved = <<>>

\* generate_order_items is called with orders, products and a target count
InitItems ==
    /\ IngestOff
    /\ AnalysisOff
    /\ gpc = "items_call"
    /\ customers \in CustomerFrames(1)
    /\ \E k \in 1..NumProducts : products \in ProductFrames(k)
    /\ \E n \in 1..MaxOrders : orders \in OrderFrames(customers, n)
    /\ \A i \in DOMAIN orders : orders[i].order_date = DATA_END_DATE
    /\ \E m \in 0..MaxItems :
         counts = [customers |-> 1, products |-> Len(products),
                   orders |-> Len(orders), order_items |-> m, reviews |-> 0]
    /\ order_items = <<>>
    /\ order_totals = <<>>
    /\ record_id = 0
    /\ selectable_items = <<>>
    /\ reviews = <<>>
    /\ saved = <<>>

\* the item lists generate_order_items can return for these orders and
\* products when every quantity drawn is 1 and the products are drawn in
\* turn; the orders of the items after the first Len(ords) are free
ItemFrames(ords, prods, m) ==
    {[i \in 1..m |->
        LET pid == ((i - 1) % Len(prods)) + 1
        IN  [order_item_id |-> i,
             order_id      |-> f[i],
             product_id    |-> pid,
             quantity      |-> 1,
             unit_price    |-> PriceOf(prods, pid),
             subtotal      |-> Round2(PriceOf(prods, pid))]] :
      f \in {g \in [1..m -> DOMAIN ords] :
                \A i \in 1..m : i <= Len(ords) => g[i] = i}}

\* generate_reviews is called with the order items, the orders (totals
\* written back, placed on the last two days of the range) and a count
InitReviews ==
    /\ IngestOff
    /\ AnalysisOff
    /\ gpc = "reviews_call"
    /\ customers \in CustomerFrames(NumCustomers)
    /\ \A i \in DOMAIN customers :
         customers[i].registration_date = REGISTRATION_START
    /\ products \in ProductFrames(NumProducts)
    /\ \A i \in DOMAIN products : products[i].price = products[1].price
    /\ \E n \in 1..MaxOrders : \E m \in n..(n + 1) :
       \E ords \in OrderFrames(customers, n) :
         /\ \A i \in 1..n : ords[i].order_date >= DATA_END_DATE - 1
         /\ order_items \in ItemFrames(ords, products, m)
         /\ orders = [i \in 1..n |->
                        [ords[i] EXCEPT !.total_amount =
                            Round2(SubtotalSum(order_items, i))]]
    /\ \E r \in 0..MaxReviews :
         counts = [customers |-> Len(customers), products |-> Len(products),
                   orders |-> Len(orders), order_items |-> Len(order_items),
                   reviews |-> r]
    /\ order_totals = [i \in DOMAIN orders |-> SubtotalSum(order_items, i)]
    /\ record_id = Len(order_items) + 1
    /\ selectable_items = <<>>
    /\ reviews = <<>>
    /\ saved = <<>>

----------------------------------------------------------------------------
(* Specifications *)

GenerateOrders == GenerateOrder \/ OrdersReturn

GenerateOrderItems ==
    BeginOrderItems \/ SeedItem \/ ExtraItem \/ FinishOrderItems

GenerateReviews == BeginReviews \/ GenerateReview \/ ReviewsReturn

\* the whole of main()
NextMain ==
    \/ GenerateCustomer \/ CustomersReturn
    \/ GenerateProduct \/ ProductsReturn
    \/ GenerateOrder \/ OrdersReturn
    \/ BeginOrderItems \/ SeedItem \/ ExtraItem \/ FinishOrderItems
    \/ BeginReviews \/ GenerateReview \/ ReviewsReturn
    \/ SaveDataframe

\* main() of the ingest, run after run
NextIngest ==
    \/ StartIngest
    \/ CheckDataDir
    \/ ReadCsv
    \/ ConnectDatabase
    \/ DropExistingTable
    \/ CreateSchemaTable
    \/ CreateSchemaIndexes
    \/ BeginTransaction
    \/ InsertNextRow
    \/ InsertNextTable
    \/ CommitInsert
    \/ ReportCounts

\* main() of the analysis
NextAnalysis == StartAnalysis \/ RunQuery \/ SummarizeRuns

vars == <<gvars, ivars, avars>>

Spec == InitMain /\ [][NextMain]_vars

SpecOrders == InitOrders /\ [][GenerateOrders]_vars

SpecItems ==
    InitItems /\ [][GenerateOrderItems]_vars

SpecReviews ==
    InitReviews /\ [][GenerateReviews]_vars

SpecIngest == InitIngest /\ [][NextIngest]_vars

SpecAnalysis ==
    InitAnalysis /\ [][NextAnalysis]_vars

----------------------------------------------------------------------------
(* Order items: totals, coverage, target count *)

OrderIds == {o.order_id : o \in Range(orders)}

ProductIds == {p.product_id : p \in Range(products)}

\* generate_order_items has returned (the totals are written back)
ItemsReturned == gpc \in {"reviews_call", "reviews", "save", "done"}

\* generate_order_items has been entered
ItemsEntered == gpc = "items" \/ ItemsReturned

\* C1: once generate_order_items has returned, every order's total_amount is
\* the sum, rounded to 2 decimal places, of the subtotals of the produced
\* items of that order, and every subtotal is quantity x unit_price.
C1_TotalIsSumOfSubtotals ==
    ItemsReturned =>
        /\ \A i \in DOMAIN orders :
             orders[i].total_amount =
                Round2(SubtotalSum(order_items, orders[i].order_id))
        /\ \A k \in DOMAIN order_items :
             order_items[k].subtotal =
                order_items[k].quantity * order_items[k].unit_price

\* C1 witness: the function has returned and some order has two items or
\* more, so that its total is a sum of several subtotals
C1_Witness ==
    /\ ItemsReturned
    /\ \E i \in DOMAIN orders :
         /\ Cardinality({k \in DOMAIN order_items :
                            order_items[k].order_id = orders[i].order_id}) >= 2
         /\ orders[i].total_amount > 0

\* C2: for N orders and a target count M >= N the function returns exactly M
\* items; items 1..N are one per order in order-id order (so every order id
\* appears), and every item references an existing order and product.
C2_SeedThenExtra ==
    (ItemsReturned /\ counts.order_items >= Len(orders)) =>
        /\ Len(order_items) = counts.order_items
        /\ \A k \in 1..Len(orders) :
             /\ order_items[k].order_item_id = k
             /\ order_items[k].order_id = orders[k].order_id
        /\ \A oid \in OrderIds :
             \E k \in DOMAIN order_items : order_items[k].order_id = oid
        /\ \A k \in DOMAIN order_items :
             /\ order_items[k].order_id \in OrderIds
             /\ order_items[k].product_id \in ProductIds

\* C2 witness: the function has returned with a target above the number of
\* orders, so that items were added after the seed items
C2_Witness ==
    /\ ItemsReturned
    /\ Len(orders) >= 2
    /\ counts.order_items > Len(orders)
    /\ Len(order_items) > Len(orders)

\* C3: with a target count below the number of orders, generation fails
\* before an item is allocated and no output file is written.
C3_SmallTargetFailsFast ==
    (ItemsEntered /\ counts.order_items < Len(orders)) =>
        /\ order_items = <<>>
        /\ ~ItemsReturned
        /\ saved = <<>>

----------------------------------------------------------------------------
(* Orders and reviews: references and dates *)

\* C6: every order produced by generate_orders references an existing
\* customer, and its order_date lies between that customer's
\* registration_date and the dataset end date.
C6_OrderAfterRegistration ==
    \A i \in DOMAIN orders :
        \E c \in Range(customers) :
            /\ c.customer_id = orders[i].customer_id
            /\ orders[i].order_date >= c.registration_date
            /\ orders[i].order_date <= DATA_END_DATE

\* C6 witness: generate_orders has returned an order of a customer who
\* registered after the first day
C6_Witness ==
    /\ gpc = "items_call"
    /\ \E i \in DOMAIN orders : \E c \in Range(customers) :
         /\ c.customer_id = orders[i].customer_id
         /\ c.registration_date > REGISTRATION_START

\* C7: for every review there is an order item I with order O such that the
\* review has I's product, O's customer and a date on or after O's date.
C7_ReviewOfPurchase ==
    \A r \in Range(reviews) :
        \E k \in DOMAIN order_items : \E o \in Range(orders) :
            /\ o.order_id = order_items[k].order_id
            /\ r.product_id = order_items[k].product_id
            /\ r.customer_id = o.customer_id
            /\ r.review_date >= o.order_date

\* C7 witness: generate_reviews has returned a review of a customer other
\* than the first, for an order placed after the first day
C7_Witness ==
    /\ gpc = "save"
    /\ \E r \in Range(reviews) :
         /\ r.customer_id > 1
         /\ r.review_date > REGISTRATION_START

----------------------------------------------------------------------------
(* Analysis: a failing query *)

ResultQueries == {results[i].query : i \in DOMAIN results}

----------------------------------------------------------------------------
(* Ingest: transaction, reload, missing input *)

AllFilesThere == disk.dir /\ DOMAIN disk.files = TableSet

\* the insert stage of the running ingest run has begun
InsertReached ==
    \/ ipc \in {"insert", "report", "done"}
    \/ ipc = "failed" /\ ierr = "insert"

\* C5: the bulk insertion is all-or-nothing: when the insertion of a row
\* fails, the rows inserted before it in the run are gone from what the
\* connection sees and from the committed store, and the run has failed;
\* from the start of the insertion on, the committed store holds either no
\* row at all or all rows of all five entity sets.
C5_InsertAllOrNothing ==
    /\ (ipc = "failed" /\ ierr = "insert") =>
         /\ ~in_txn
         /\ \A t \in TableSet : work[t].rows = <<>> /\ db[t].rows = <<>>
    /\ InsertReached =>
         \/ \A t \in TableSet : db[t].rows = <<>>
         \/ \A t \in TableSet : db[t].rows = FrameFor(t)

\* C5 witness: the insertion failed at the second row of the last table,
\* after four tables had been inserted in full
C5_Witness ==
    /\ ipc = "failed"
    /\ ierr = "insert"
    /\ ix = Len(Tables)
    /\ ri = 2
    /\ \A t \in TableSet : Len(FrameFor(t)) >= 2

\* C8: a load that completes leaves exactly the rows of the five entity
\* sets in the store, whatever it held before; a run on the same entity sets
\* as the run before it ends the way that run ended and leaves the store
\* with the same tables, rows and row counts.
C8_ReloadReplaces ==
    /\ ipc = "done" =>
         \A t \in TableSet : db[t].exists /\ db[t].rows = disk.files[t]
    /\ (ipc \in {"done", "failed"} /\ runs >= 2 /\ prev.disk = disk) =>
         /\ (ipc = "done") = prev.ok
         /\ db = prev.db

\* C8 witness: a second load of the same non-empty entity sets has completed
C8_Witness ==
    /\ ipc = "done"
    /\ prev.ok
    /\ prev.disk = disk
    /\ Len(db["reviews"].rows) >= 2

\* C10: a run that finds the data directory or one of the five files missing
\* fails without opening the database, and the store is as it was when the
\* run started; no run opens the database with an input missing.
C10_MissingInputBeforeStore ==
    /\ (ipc = "failed" /\ ierr \in {"dir", "file"}) =>
         /\ ~connected
         /\ db = db0
    /\ connected => AllFilesThere
    /\ (ipc = "failed" /\ ~AllFilesThere) => ierr \in {"dir", "file"}

\* C10 witness: a file is missing after others were read, and the store
\* held rows from an earlier run
C10_Witness ==
    /\ ipc = "failed"
    /\ ierr = "file"
    /\ Len(dataframes) >= 1
    /\ db["customers"].rows # <<>>

----------------------------------------------------------------------------
(* Order items: the number of items returned *)

Max(a, b) == IF a >= b THEN a ELSE b

\* C14: for a target count M and N orders generate_order_items returns
\* exactly max(M, N) items: the N seed items are always there, and an item
\* after them is there only if its id is at most M.
C14_MaxOfTargetAndOrders ==
    /\ ItemsReturned =>
         /\ Len(order_items) = Max(counts.order_items, Len(orders))
         /\ \A k \in 1..Len(orders) :
              order_items[k].order_id = orders[k].order_id
    /\ ItemsEntered =>
         \A k \in DOMAIN order_items :
            k > Len(orders) => order_items[k].order_item_id <= counts.order_items

\* C14 witness: the function has returned more items than the target asked
\* for, one per order
C14_Witness ==
    /\ ItemsReturned
    /\ counts.order_items < Len(orders)
    /\ Len(orders) >= 2
    /\ Len(order_items) = Len(orders)

----------------------------------------------------------------------------
(* Analysis: a store without rows *)

\* the tables a query reads are all there and all without rows
ReadsEmptyTables(q) == \A t \in QueryTables(q) : adb.tables[t] = "empty"

\* C13: a query whose tables exist but hold no rows raises no error, is in
\* the results with row count 0 and has its export file written.
C13_EmptyStoreZeroRows ==
    /\ \A i \in DOMAIN results :
         ReadsEmptyTables(results[i].query) =>
            /\ results[i].rows = 0
            /\ results[i].query \in exports
    /\ \A i \in DOMAIN query_functions :
         (apc \in {"queries", "done"} /\ qi > i
             /\ ReadsEmptyTables(query_functions[i])) =>
            /\ i \in DOMAIN results
            /\ results[i].query = query_functions[i]
    /\ (apc = "failed" /\ adb.exists) =>
         ~ReadsEmptyTables(query_functions[qi])

\* C13 witness: all five tables are empty, the run is over and the summary
\* lists the five queries with row count 0
C13_Witness ==
    /\ apc = "done"
    /\ \A t \in TableSet : adb.tables[t] = "empty"
    /\ Len(summary.rows) = Len(query_functions)
    /\ \A i \in DOMAIN summary.rows : summary.rows[i].rows = 0
    /\ exports = Range(query_functions)

----------------------------------------------------------------------------
(* Ingest: what a failed insertion leaves behind *)

EmptySchema(store) ==
    \A t \in TableSet :
        /\ store[t].exists
        /\ store[t].rows = <<>>
        /\ store[t].indexes = IndexesOf(t)

\* C15: the dropping of the old tables and the new schema are committed
\* before the insertion transaction begins; after an insertion that failed
\* and was rolled back the store, and what the connection sees, is the five
\* tables without rows: the rows held before the run are not restored.
C15_FailedInsertLeavesEmptySchema ==
    /\ (ipc = "insert" => EmptySchema(db))
    /\ (ipc = "failed" /\ ierr = "insert") =>
         /\ EmptySchema(db)
         /\ work = db
         /\ (\E t \in TableSet : db0[t].rows # <<>>) => db # db0

\* C15 witness: an insertion has failed on a store that held rows of an
\* earlier load
C15_Witness ==
    /\ ipc = "failed"
    /\ ierr = "insert"
    /\ \A t \in TableSet : Len(db0[t].rows) >= 2
    /\ EmptySchema(db)

----------------------------------------------------------------------------
(* Generator: identifiers *)

\* the identifiers of a frame are 1, 2, ... in row order: none is missing,
\* none occurs twice
DenseIds(frame, id) == \A i \in DOMAIN frame : frame[i][id] = i

\* C11: at every point of main() each of the five entity sets carries the
\* identifiers exactly 1..k for its k records, without duplicates or gaps:
\* the order items over the seed items and the additional ones, the reviews
\* also when an order item was sampled more than once; the saved files too.
C11_IdsDense ==
    /\ DenseIds(customers, "customer_id")
    /\ DenseIds(products, "product_id")
    /\ DenseIds(orders, "order_id")
    /\ DenseIds(order_items, "order_item_id")
    /\ DenseIds(reviews, "review_id")
    /\ \A k \in DOMAIN saved :
         \A i \in DOMAIN saved[k].rows :
            \E id \in DOMAIN saved[k].rows[i] : saved[k].rows[i][id] = i
    /\ gpc \in {"reviews_call", "reviews", "save", "done"} =>
         /\ Len(customers) = counts.customers
         /\ Len(products) = counts.products
         /\ Len(orders) = counts.orders
    /\ gpc \in {"save", "done"} => Len(reviews) = counts.reviews

\* C11 witness: main() is through, with an item beyond the seed items and
\* two reviews drawn from one order item
C11_Witness ==
    /\ gpc = "done"
    /\ Len(order_items) > Len(orders)
    /\ Len(orders) >= 2
    /\ Len(reviews) >= 2
    /\ selectable_items[1] = selectable_items[2]

----------------------------------------------------------------------------
(* Generator: records after their creation *)

\* the stages of main() after generate_order_items has returned
TotalsWritten == {"reviews_call", "reviews", "save", "done"}

\* every record of the frame is still there, as it was
Unmodified(old, new) ==
    \A i \in DOMAIN old : i \in DOMAIN new /\ new[i] = old[i]

\* every order is still there, as it was but for its total
UnmodifiedButTotal(old, new) ==
    \A i \in DOMAIN old :
        /\ i \in DOMAIN new
        /\ [new[i] EXCEPT !.total_amount = 0] = [old[i] EXCEPT !.total_amount = 0]

\* C12: an order's total_amount is 0 from its creation until
\* generate_order_items has built all its items, is written in the one step
\* that ends that function and is changed by no later stage (reviews,
\* saving); no other attribute of a customer, product, order or order item
\* changes once the record exists, and a saved file keeps its rows.
C12_TotalWrittenOnce ==
    [][/\ Unmodified(customers, customers')
       /\ Unmodified(products, products')
       /\ UnmodifiedButTotal(orders, orders')
       /\ Unmodified(order_items, order_items')
       /\ Unmodified(saved, saved')
       /\ gpc \notin TotalsWritten =>
            \A i \in DOMAIN orders : orders[i].total_amount = 0
       /\ gpc' \notin TotalsWritten =>
            \A i \in DOMAIN orders' : orders'[i].total_amount = 0
       /\ (gpc = "items" /\ gpc' = "reviews_call") =>
            \A i \in DOMAIN orders :
               /\ orders'[i].total_amount # 0
               /\ orders'[i].total_amount =
                     Round2(SubtotalSum(order_items, orders[i].order_id))
       /\ gpc \in TotalsWritten => (gpc' \in TotalsWritten /\ orders' = orders)
       /\ (Len(saved') >= 3 /\ Len(saved) < 3) => saved'[3].rows = orders
    ]_vars

\* C12 witness: main() is through; an order with two items has its total,
\* reviews were generated after the totals were written, and orders.csv
\* holds the orders with their totals
C12_Witness ==
    /\ gpc = "done"
    /\ Len(reviews) >= 1
    /\ saved[3].rows = orders
    /\ \E i \in DOMAIN orders :
         /\ orders[i].customer_id > 1
         /\ \E j, k \in DOMAIN order_items :
              /\ j < k
              /\ order_items[j].order_id = orders[i].order_id
              /\ order_items[k].order_id = orders[i].order_id
              /\ orders[i].total_amount =
                    Round2(order_items[j].subtotal + order_items[k].subtotal)

============================================================================
